---- MODULE Spec2Model ----
(***************************************************************************)
(* A model of torchao/float8/float8_ops.py: the operation registry         *)
(* (FLOAT8_OPS_TABLE / implements), the non-matmul handlers that rewrap a  *)
(* Float8TrainingTensor, and the scaled matmul pipeline                    *)
(* (preprocess_addmm, float8_mm, float8_addmm, addmm_float8_unwrapped).    *)
(*                                                                         *)
(* Three specifications share the variables:                              *)
(*   SpecRegistry  sequences of implements(ops)(func) calls                 *)
(*   Spec          handler calls on Float8TrainingTensors                   *)
(*   SpecMM        float8_mm / float8_addmm / addmm_float8_unwrapped calls  *)
(***************************************************************************)
EXTENDS Integers, Sequences, FiniteSets, TLC

VARIABLES
    FLOAT8_OPS_TABLE,   \* op id -> handler name, or NoHandler
    reg,                \* the last implements(...) call and its outcome
    call,               \* the last handler call: op, arguments, outcome
    prev,               \* the call whose result the last call consumed
    mm                  \* the last matmul-pipeline call and its outcome

vars == <<FLOAT8_OPS_TABLE, reg, call, prev, mm>>

None == "None"

\* Optional[int], as axiswise_dim is: None, or the axis
NoAxis == <<>>
Axis(k) == <<k>>

NoCallRecord == [op |-> None]
NoMM == [op |-> None]

(***************************************************************************)
(* Operation registry                                                      *)
(***************************************************************************)

\* bounds
MaxOps == 3         \* longest op list handed to one implements(...) call

OpIds == {"aten.t.default", "aten.transpose.int", "aten.view.default"}
Handlers == {"float8_transpose", "float8_view"}
NoHandler == "unregistered"

OpLists == UNION {[1..n -> OpIds] : n \in 0..MaxOps}

\* the loop body of decorator(func) from position i on: returns the table it
\* leaves behind and whether the RuntimeError was raised
RECURSIVE decorator_loop(_, _, _, _)
decorator_loop_overwrite(table, aten_ops, func, i) ==
    IF i > Len(aten_ops)
    THEN [table |-> table, raised |-> FALSE]
    ELSE decorator_loop([table EXCEPT ![aten_ops[i]] = func], aten_ops, func, i + 1)

decorator_loop(table, aten_ops, func, i) ==
    IF i > Len(aten_ops)
    THEN [table |-> table, raised |-> FALSE]
    ELSE IF table[aten_ops[i]] # NoHandler
         THEN [table |-> table, raised |-> TRUE]
         ELSE decorator_loop([table EXCEPT ![aten_ops[i]] = func], aten_ops, func, i + 1)

NoReg == [called |-> FALSE]

\* implements(aten_ops)(func)
implements ==
    \E aten_ops \in OpLists, func \in Handlers :
        LET r == decorator_loop(FLOAT8_OPS_TABLE, aten_ops, func, 1) IN
        /\ FLOAT8_OPS_TABLE' = r.table
        /\ reg' = [called |-> TRUE, aten_ops |-> aten_ops, func |-> func,
                   before |-> FLOAT8_OPS_TABLE, raised |-> r.raised]
        /\ UNCHANGED <<call, prev, mm>>

(***************************************************************************)
(* Numbers: exact rationals [n, d] in lowest terms, d > 0                   *)
(***************************************************************************)
Abs(x) == IF x < 0 THEN -x ELSE x

RECURSIVE GCD(_, _)
GCD(a, b) == IF b = 0 THEN a ELSE GCD(b, a % b)

Rat(n, d) ==
    LET g == GCD(Abs(n), Abs(d))
        s == IF d < 0 THEN -1 ELSE 1
    IN [n |-> (s * n) \div g, d |-> (s * d) \div g]

RInt(k) == [n |-> k, d |-> 1]
RAdd(x, y) == Rat(x.n * y.d + y.n * x.d, x.d * y.d)
RMul(x, y) == Rat(x.n * y.n, x.d * y.d)
RDiv(x, y) == Rat(x.n * y.d, x.d * y.n)
reciprocal(x) == Rat(x.d, x.n)

RECURSIVE Pow2(_)
Pow2(k) == IF k = 0 THEN 1 ELSE 2 * Pow2(k - 1)

(***************************************************************************)
(* Raw arrays: [dtype, shape, flat], flat in row-major order.  A float8     *)
(* array holds the bit pattern of each element (0..126: the positive       *)
(* finite patterns); decode gives the number a pattern stands for.         *)
(***************************************************************************)
float8_e4m3fn == "float8_e4m3fn"
float8_e5m2 == "float8_e5m2"
uint8 == "uint8"
float32 == "float32"
float16 == "float16"
bfloat16 == "bfloat16"

Fp8Dtypes == {float8_e4m3fn, float8_e5m2}

\* the value of bit pattern b: 4 exponent bits (bias 7) and 3 mantissa bits,
\* or 5 exponent bits (bias 15) and 2 mantissa bits
decode(dtype, b) ==
    LET mbits == IF dtype = float8_e4m3fn THEN 3 ELSE 2
        bias == IF dtype = float8_e4m3fn THEN 7 ELSE 15
        e == b \div Pow2(mbits)
        m == b % Pow2(mbits)
        sh == e - bias - mbits
    IN IF e = 0 THEN Rat(m, Pow2(bias - 1 + mbits))
       ELSE IF sh >= 0 THEN RInt((Pow2(mbits) + m) * Pow2(sh))
       ELSE Rat(Pow2(mbits) + m, Pow2(-sh))

\* the bit pattern of a number the dtype represents exactly
encode(dtype, v) == CHOOSE b \in 0..126 : decode(dtype, b) = v

RECURSIVE Prod(_)
Prod(shape) == IF shape = <<>> THEN 1 ELSE Head(shape) * Prod(Tail(shape))

numel(a) == Prod(a.shape)

\* element (i, j), 1-based, of a rank-2 array
At(a, i, j) == a.flat[(i - 1) * a.shape[2] + j]

\* a rank-2 array record like a (its other fields kept) of shape (r, c)
\* holding f[<<i, j>>]
Fill2D(a, r, c, f) ==
    [a EXCEPT !.shape = <<r, c>>,
              !.flat = [k \in 1..(r * c) |-> f[<<((k - 1) \div c) + 1, ((k - 1) % c) + 1>>]]]

Ok(v) == [ok |-> TRUE, val |-> v]
Err == [ok |-> FALSE]

\* aten.clone / aten.detach / wait_tensor: the same elements
aten_clone(a) == Ok(a)

\* aten.reshape / aten._unsafe_view / aten.view on a contiguous array
aten_reshape(a, shape) ==
    IF Prod(shape) = numel(a) THEN Ok([a EXCEPT !.shape = shape]) ELSE Err

\* aten.view.default(a, size) on a contiguous array: at most one entry of size
\* is -1 and is inferred from the number of elements
aten_view(a, size) ==
    LET holes == {k \in 1..Len(size) : size[k] = -1}
        known == Prod([k \in 1..Len(size) |-> IF size[k] = -1 THEN 1 ELSE size[k]])
    IN IF \E k \in 1..Len(size) : size[k] < -1 \/ size[k] = 0 THEN Err
       ELSE IF holes = {}
       THEN IF known = numel(a) THEN Ok([a EXCEPT !.shape = size]) ELSE Err
       ELSE IF Cardinality(holes) > 1 \/ numel(a) % known # 0 THEN Err
       ELSE Ok([a EXCEPT !.shape = [k \in 1..Len(size) |->
                    IF size[k] = -1 THEN numel(a) \div known ELSE size[k]]])

\* aten.slice.Tensor(a, dim, start, end) with step 1 (start and end clamped)
aten_slice(a, dim, start, end) ==
    IF Len(a.shape) # 2 \/ dim \notin {0, 1} THEN Err
    ELSE LET n == a.shape[dim + 1]
             lo == IF start > n THEN n ELSE start
             hi0 == IF end > n THEN n ELSE end
             hi == IF hi0 < lo THEN lo ELSE hi0
             r == IF dim = 0 THEN hi - lo ELSE a.shape[1]
             c == IF dim = 1 THEN hi - lo ELSE a.shape[2]
         IN Ok(Fill2D(a, r, c,
                 [p \in (1..r) \X (1..c) |->
                     IF dim = 0 THEN At(a, p[1] + lo, p[2]) ELSE At(a, p[1], p[2] + lo)]))

\* aten.fill_.Scalar(a, value): every element becomes the pattern of value
aten_fill_(a, value) ==
    Ok([a EXCEPT !.flat = [k \in 1..numel(a) |-> encode(a.dtype, value)]])

\* aten.as_strided(a, size, stride, storage_offset) for a rank-2 size
aten_as_strided(a, size, stride, offset) ==
    LET r == size[1]
        c == size[2]
        last == offset + (r - 1) * stride[1] + (c - 1) * stride[2]
    IN IF r * c > 0 /\ last >= numel(a) THEN Err
       ELSE Ok(Fill2D(a, r, c,
                [p \in (1..r) \X (1..c) |->
                    a.flat[offset + (p[1] - 1) * stride[1] + (p[2] - 1) * stride[2] + 1]]))

\* aten.transpose.int(a, dim0, dim1) on a rank-2 array
aten_transpose(a, dim0, dim1) ==
    IF Len(a.shape) # 2 \/ dim0 \notin {0, 1} \/ dim1 \notin {0, 1} THEN Err
    ELSE IF dim0 = dim1 THEN Ok(a)
    ELSE Ok(Fill2D(a, a.shape[2], a.shape[1],
               [p \in (1..a.shape[2]) \X (1..a.shape[1]) |-> At(a, p[2], p[1])]))

\* aten.t.default: identity below rank 2, the transpose at rank 2
aten_t(a) ==
    IF Len(a.shape) < 2 THEN Ok(a)
    ELSE IF Len(a.shape) = 2 THEN aten_transpose(a, 0, 1)
    ELSE Err

\* aten.split.Tensor(a, split_size, dim): pieces of split_size along dim, the
\* last one shorter
aten_split(a, split_size, dim) ==
    IF Len(a.shape) # 2 \/ dim \notin {0, 1} \/ split_size < 1 THEN Err
    ELSE LET n == a.shape[dim + 1]
             k == IF n = 0 THEN 1 ELSE (n + split_size - 1) \div split_size
         IN Ok([q \in 1..k |->
                 aten_slice(a, dim, (q - 1) * split_size, q * split_size).val])

\* aten.cat.default(arrays, dim) on rank-2 arrays of one dtype that agree
\* off the axis dim
RECURSIVE Offset(_, _, _)
Offset(arrays, dim, q) ==
    IF q = 1 THEN 0 ELSE Offset(arrays, dim, q - 1) + arrays[q - 1].shape[dim + 1]

aten_cat(arrays, dim) ==
    IF \/ Len(arrays) = 0
       \/ dim \notin {0, 1}
       \/ \E q \in 1..Len(arrays) :
             \/ Len(arrays[q].shape) # 2
             \/ arrays[q].dtype # arrays[1].dtype
             \/ arrays[q].shape[2 - dim] # arrays[1].shape[2 - dim]
    THEN Err
    ELSE LET total == Offset(arrays, dim, Len(arrays) + 1)
             r == IF dim = 0 THEN total ELSE arrays[1].shape[1]
             c == IF dim = 1 THEN total ELSE arrays[1].shape[2]
             \* the chunk holding position x along dim
             Chunk(x) == CHOOSE q \in 1..Len(arrays) :
                             /\ Offset(arrays, dim, q) < x
                             /\ x <= Offset(arrays, dim, q + 1)
         IN Ok(Fill2D(arrays[1], r, c,
                 [p \in (1..r) \X (1..c) |->
                     LET x == p[dim + 1]
                         q == Chunk(x)
                         y == x - Offset(arrays, dim, q)
                     IN IF dim = 0 THEN At(arrays[q], y, p[2])
                                   ELSE At(arrays[q], p[1], y)]))

\* Tensor.view(dtype) between one-byte dtypes: the same bits under another dtype
view_dtype(a, dtype) == [a EXCEPT !.dtype = dtype]

(***************************************************************************)
(* Float8TrainingTensor and plain (high precision) tensors                 *)
(***************************************************************************)
F8 == "Float8TrainingTensor"
HP == "Tensor"

isinstance(x, cls) == x.cls = cls

\* Float8TrainingTensor(data, scale, orig_dtype, linear_mm_config,
\* gemm_input_role, axiswise_dim): the wrapper's fields
Float8TrainingTensorAx(data, scale, orig_dtype, linear_mm_config, gemm_input_role, axiswise_dim) ==
    [cls |-> F8, data |-> data, scale |-> scale, orig_dtype |-> orig_dtype,
     linear_mm_config |-> linear_mm_config, gemm_input_role |-> gemm_input_role,
     axiswise_dim |-> axiswise_dim]

\* the same with axiswise_dim left at its default
Float8TrainingTensor(data, scale, orig_dtype, linear_mm_config, gemm_input_role) ==
    Float8TrainingTensorAx(data, scale, orig_dtype, linear_mm_config,
                           gemm_input_role, NoAxis)

\* Python's `is` on scale tensors and on mm configs: the same object
Is(x, y) == x.oid = y.oid

\* == on two mm configs (named tuples): the same field values
ConfigEq(x, y) ==
    /\ x.emulate = y.emulate
    /\ x.use_fast_accum = y.use_fast_accum
    /\ x.pad_inner_dim = y.pad_inner_dim

\* `assert x == y` on two scale tensors: the elementwise comparison must
\* broadcast to exactly one element, and that element must be true
AssertScaleEq(x, y) == numel(x) = 1 /\ numel(y) = 1 /\ x.flat[1] = y.flat[1]

\* the scale that applies to element (i, j) of the data (broadcasting)
ScaleAt(scale, i, j) ==
    IF Len(scale.shape) < 2 THEN scale.flat[1]
    ELSE At(scale, IF scale.shape[1] = 1 THEN 1 ELSE i,
                   IF scale.shape[2] = 1 THEN 1 ELSE j)

\* can the scale be broadcast against rank-2 data of this shape
Broadcasts(scale, shape) ==
    IF Len(scale.shape) < 2 THEN numel(scale) = 1
    ELSE /\ scale.shape[1] \in {1, shape[1]}
         /\ scale.shape[2] \in {1, shape[2]}

\* Float8TrainingTensor.to_original_precision(): data / scale in orig_dtype
to_original_precision(t) ==
    IF Len(t.data.shape) # 2 \/ ~Broadcasts(t.scale, t.data.shape) THEN Err
    ELSE Ok([cls |-> HP, dtype |-> t.orig_dtype, shape |-> t.data.shape,
             flat |-> [k \in 1..numel(t.data) |->
                 RDiv(decode(t.data.dtype, t.data.flat[k]),
                      ScaleAt(t.scale, ((k - 1) \div t.data.shape[2]) + 1,
                                       ((k - 1) % t.data.shape[2]) + 1))]])

\* _assert_tensorwise_scale passes
_assert_tensorwise_scale(scale) == Len(scale.shape) \in {0, 1}

\* what a handler call leaves: raised, or the value returned; self_after is
\* args[0]'s raw array (or plain tensor) once the call is over
Raise(self) == [raised |-> TRUE, out |-> None, self_after |-> self]
Return(out, self) == [raised |-> FALSE, out |-> out, self_after |-> self]

\* aten_op(data, *args[1:]) for the ops float8_desugar_op is registered for
aten(aten_op, data) ==
    CASE aten_op.name = "aten.clone.default" -> aten_clone(data)
      [] aten_op.name = "aten._unsafe_view.default" -> aten_reshape(data, aten_op.size)
      [] aten_op.name = "aten.reshape.default" -> aten_reshape(data, aten_op.size)
      [] aten_op.name = "aten.as_strided.default" ->
             aten_as_strided(data, aten_op.size, aten_op.stride, aten_op.offset)
      [] aten_op.name = "aten.slice.Tensor" ->
             aten_slice(data, aten_op.dim, aten_op.start, aten_op.end)
      [] aten_op.name = "aten.fill_.Scalar" -> aten_fill_(data, aten_op.value)
      [] aten_op.name = "aten.view.default" -> aten_view(data, aten_op.size)
      [] aten_op.name = "aten.detach.default" -> aten_clone(data)
      [] aten_op.name = "aten.t.default" -> aten_t(data)
      [] aten_op.name = "aten.transpose.int" ->
             aten_transpose(data, aten_op.dim0, aten_op.dim1)

\* the ops that write into their first argument
InPlace(aten_op) == aten_op.name = "aten.fill_.Scalar"

\* a tensor object created by the call: distinct from every argument
NewObject(x, args) == [x EXCEPT !.oid = 1 + args.scale.oid]

float8_desugar_op_fresh_scale(aten_op, t) ==
    IF ~_assert_tensorwise_scale(t.scale) THEN Raise(t.data)
    ELSE LET new_data == aten(aten_op, t.data) IN
         IF ~new_data.ok THEN Raise(t.data)
         ELSE Return(Float8TrainingTensor(new_data.val, NewObject(t.scale, t),
                         t.orig_dtype, t.linear_mm_config, t.gemm_input_role),
                     IF InPlace(aten_op) THEN new_data.val ELSE t.data)

float8_desugar_op(aten_op, t) ==
    IF ~_assert_tensorwise_scale(t.scale) THEN Raise(t.data)
    ELSE LET new_data == aten(aten_op, t.data) IN
         IF ~new_data.ok THEN Raise(t.data)
         ELSE Return(Float8TrainingTensor(new_data.val, t.scale, t.orig_dtype,
                         t.linear_mm_config, t.gemm_input_role),
                     IF InPlace(aten_op) THEN new_data.val ELSE t.data)

float8_desugar_data_and_scale_op(aten_op, t) ==
    LET new_data == aten(aten_op, t.data)
        new_scale == aten(aten_op, t.scale)
    IN IF ~new_data.ok \/ ~new_scale.ok THEN Raise(t.data)
       ELSE Return(Float8TrainingTensor(new_data.val, NewObject(new_scale.val, t),
                       t.orig_dtype, t.linear_mm_config, t.gemm_input_role),
                   t.data)

\* the marker the handler was meant to compute: 0 <-> last
swapped_axiswise_dim(old_axiswise_dim) ==
    IF old_axiswise_dim = NoAxis THEN NoAxis
    ELSE IF old_axiswise_dim = Axis(0) THEN Axis(-1) ELSE Axis(0)

\* the marker it does compute: `new_axiswise_dim == -1` and
\* `new_axiswise_dim == 0` are comparisons, so the old marker stays
new_axiswise_dim(old_axiswise_dim) == old_axiswise_dim

float8_transpose(aten_op, t) ==
    LET new_data == aten(aten_op, t.data)
        new_scale == IF Len(t.scale.shape) > 1
                     THEN LET s == aten(aten_op, t.scale) IN
                          IF s.ok THEN Ok(NewObject(s.val, t)) ELSE s
                     ELSE Ok(t.scale)
    IN IF ~new_data.ok \/ ~new_scale.ok THEN Raise(t.data)
       ELSE IF aten_op.name = "aten.transpose.int" /\ ~_assert_tensorwise_scale(t.scale)
       THEN Raise(t.data)
       ELSE Return(Float8TrainingTensorAx(new_data.val, new_scale.val, t.orig_dtype,
                       t.linear_mm_config, t.gemm_input_role,
                       new_axiswise_dim(t.axiswise_dim)),
                   t.data)

\* the errors a view can end in: the handler's AssertionError, or the
\* RuntimeError of aten.view on a size that does not fit
NotSupportedYet == "AssertionError: is not supported yet"
InvalidShape == "RuntimeError: shape is invalid for input of size"

ViewRaise(self, error) == [raised |-> TRUE, out |-> None, self_after |-> self, error |-> error]
ViewReturn(out, self) == [raised |-> FALSE, out |-> out, self_after |-> self, error |-> None]

\* Float8TrainingTensor.shape: the shape of the data
wrapper_shape(t) == t.data.shape

\* the rewrap of a view of data and scale, or aten.view's error
view_rewrap(t, new_data, new_scale, axiswise_dim) ==
    IF ~new_data.ok \/ ~new_scale.ok THEN ViewRaise(t.data, InvalidShape)
    ELSE ViewReturn(Float8TrainingTensorAx(new_data.val, new_scale.val, t.orig_dtype,
                        t.linear_mm_config, t.gemm_input_role, axiswise_dim),
                    t.data)

float8_view(aten_op, t, new_shape) ==
    IF new_shape = t.data.shape
    THEN view_rewrap(t, aten_view(t.data, new_shape), Ok(t.scale), t.axiswise_dim)
    ELSE IF Len(t.scale.shape) < 2
    THEN LET r == float8_desugar_op(aten_op, t) IN
         IF r.raised THEN ViewRaise(r.self_after, InvalidShape)
         ELSE ViewReturn(r.out, r.self_after)
    ELSE IF Len(new_shape) = 2 /\ t.axiswise_dim = Axis(0)
    THEN LET new_scale == aten_view(t.scale, <<1, new_shape[Len(new_shape)]>>) IN
         view_rewrap(t, aten_view(t.data, new_shape),
                     IF new_scale.ok THEN Ok(NewObject(new_scale.val, t)) ELSE new_scale,
                     t.axiswise_dim)
    ELSE IF /\ Len(new_shape) = 2
            /\ t.axiswise_dim \in {Axis(-1), Axis(Len(wrapper_shape(t)) - 1)}
    THEN LET new_scale == aten_view(t.scale, <<new_shape[1], 1>>) IN
         view_rewrap(t, aten_view(t.data, new_shape),
                     IF new_scale.ok THEN Ok(NewObject(new_scale.val, t)) ELSE new_scale,
                     Axis(-1))
    ELSE ViewRaise(t.data, NotSupportedYet)

float8_split_detach_scale(split_size, dim, t) ==
    LET new_data_tensors == aten_split(t.data, split_size, dim) IN
    IF ~new_data_tensors.ok \/ ~_assert_tensorwise_scale(t.scale) THEN Raise(t.data)
    ELSE Return([q \in 1..Len(new_data_tensors.val) |->
                    Float8TrainingTensor(new_data_tensors.val[q],
                        [t.scale EXCEPT !.oid = t.scale.oid + q], t.orig_dtype,
                        t.linear_mm_config, t.gemm_input_role)],
                t.data)

float8_split(split_size, dim, t) ==
    LET new_data_tensors == aten_split(t.data, split_size, dim) IN
    IF ~new_data_tensors.ok \/ ~_assert_tensorwise_scale(t.scale) THEN Raise(t.data)
    ELSE Return([q \in 1..Len(new_data_tensors.val) |->
                    Float8TrainingTensor(new_data_tensors.val[q], t.scale, t.orig_dtype,
                        t.linear_mm_config, t.gemm_input_role)],
                t.data)

\* the assertions float8_cat makes on one chunk against chunked_tensors[0]
cat_chunk_ok_no_scale(chunk, first) ==
    /\ isinstance(chunk, F8)
    /\ chunk.orig_dtype = first.orig_dtype
    /\ Is(chunk.linear_mm_config, first.linear_mm_config)
    /\ chunk.data.dtype = first.data.dtype
    /\ chunk.gemm_input_role = first.gemm_input_role
    /\ _assert_tensorwise_scale(chunk.scale)

cat_chunk_ok(chunk, first) ==
    /\ isinstance(chunk, F8)
    /\ chunk.orig_dtype = first.orig_dtype
    /\ Is(chunk.scale, first.scale)
    /\ Is(chunk.linear_mm_config, first.linear_mm_config)
    /\ chunk.data.dtype = first.data.dtype
    /\ chunk.gemm_input_role = first.gemm_input_role
    /\ _assert_tensorwise_scale(chunk.scale)

float8_cat(chunked_tensors, dim) ==
    IF Len(chunked_tensors) = 0 THEN Raise(None)
    ELSE LET first == chunked_tensors[1]
             self == IF isinstance(first, F8) THEN first.data ELSE first
         IN
         IF ~isinstance(first, F8) THEN Raise(self)
         ELSE IF \E q \in 1..Len(chunked_tensors) : ~cat_chunk_ok(chunked_tensors[q], first)
         THEN Raise(self)
         ELSE LET fp8_dtype == first.data.dtype
                  chunk_data == [q \in 1..Len(chunked_tensors) |->
                                    view_dtype(chunked_tensors[q].data, uint8)]
                  new_data == aten_cat(chunk_data, dim)
              IN IF ~new_data.ok THEN Raise(self)
                 ELSE Return(Float8TrainingTensor(view_dtype(new_data.val, fp8_dtype),
                                 first.scale, first.orig_dtype, first.linear_mm_config,
                                 first.gemm_input_role),
                             self)

autocast_to_copy(dtype, t) ==
    IF ~isinstance(t, F8) \/ dtype \notin {float16, bfloat16} THEN Raise(t.data)
    ELSE Return(Float8TrainingTensorAx(t.data, t.scale, dtype, t.linear_mm_config,
                    t.gemm_input_role, t.axiswise_dim),
                t.data)

\* all_gather_into_tensor(data, group_size, group_name): this rank's shard and
\* the other ranks' shards, joined along axis 0 in rank order
all_gather_into_tensor(shards) == aten_cat(shards, 0)

allgather_fp8(shards, t) ==
    IF ~_assert_tensorwise_scale(t.scale) \/ ~isinstance(t, F8) THEN Raise(t.data)
    ELSE LET fp8_out == all_gather_into_tensor(shards) IN
         IF ~fp8_out.ok THEN Raise(t.data)
         ELSE Return(Float8TrainingTensor(fp8_out.val, t.scale, t.orig_dtype,
                         t.linear_mm_config, t.gemm_input_role),
                     t.data)

wait_tensor_fp8(t) ==
    IF ~_assert_tensorwise_scale(t.scale) \/ ~isinstance(t, F8) THEN Raise(t.data)
    ELSE LET fp8_out == aten_clone(t.data) IN
         Return(Float8TrainingTensor(fp8_out.val, t.scale, t.orig_dtype,
                    t.linear_mm_config, t.gemm_input_role),
                t.data)

\* the size an array of this shape is broadcast from: below rank 2 one
\* element, at rank 2 each axis either 1 or the target's
BroadcastsTo(shape, target) ==
    IF Len(shape) < 2 THEN Prod(shape) = 1
    ELSE shape[1] \in {1, target[1]} /\ shape[2] \in {1, target[2]}

BroadcastAt(a, i, j) ==
    IF Len(a.shape) < 2 THEN a.flat[1]
    ELSE At(a, IF a.shape[1] = 1 THEN 1 ELSE i, IF a.shape[2] = 1 THEN 1 ELSE j)

\* aten.copy_(dst, src): src's elements, broadcast to dst's shape and held in
\* dst's dtype, written into dst (every number of the model is exact in every
\* dtype, so the cast changes the dtype and not the number)
aten_copy_(dst, src) ==
    IF Len(dst.shape) # 2 \/ ~BroadcastsTo(src.shape, dst.shape) THEN Err
    ELSE Ok([dst EXCEPT !.flat = [k \in 1..numel(dst) |->
                BroadcastAt(src, ((k - 1) \div dst.shape[2]) + 1,
                                 ((k - 1) % dst.shape[2]) + 1)]])

\* aten.index_put_(data, (tensor([row]),), values): row `row` (0-based) of data
\* becomes values, which must have data's dtype and broadcast to one row
aten_index_put_(data, row, values) ==
    IF \/ Len(data.shape) # 2
       \/ row < 0 \/ row >= data.shape[1]
       \/ values.dtype # data.dtype
       \/ ~BroadcastsTo(values.shape, <<1, data.shape[2]>>)
    THEN Err
    ELSE Ok([data EXCEPT !.flat = [k \in 1..numel(data) |->
                IF ((k - 1) \div data.shape[2]) = row
                THEN BroadcastAt(values, 1, ((k - 1) % data.shape[2]) + 1)
                ELSE data.flat[k]]])

\* Float8TrainingTensor.dtype: the wrapper presents as its orig_dtype
wrapper_dtype(t) == t.orig_dtype

index_put_fp8_write_first(fp8_self, row, fp8_values) ==
    IF ~isinstance(fp8_self, F8) THEN Raise(fp8_self)
    ELSE IF ~isinstance(fp8_values, F8) THEN Raise(fp8_self.data)
    ELSE LET fp8_out == aten_index_put_(fp8_self.data, row, fp8_values.data) IN
         IF ~fp8_out.ok THEN Raise(fp8_self.data)
         ELSE IF \/ ~_assert_tensorwise_scale(fp8_self.scale)
                 \/ ~AssertScaleEq(fp8_self.scale, fp8_values.scale)
                 \/ wrapper_dtype(fp8_self) # wrapper_dtype(fp8_values)
                 \/ fp8_self.orig_dtype # fp8_values.orig_dtype
         THEN Raise(fp8_out.val)
         ELSE Return(Float8TrainingTensor(fp8_out.val, fp8_self.scale,
                         fp8_self.orig_dtype, fp8_self.linear_mm_config,
                         fp8_self.gemm_input_role),
                     fp8_out.val)

index_put_fp8(fp8_self, row, fp8_values) ==
    IF ~isinstance(fp8_self, F8) THEN Raise(fp8_self)
    ELSE IF \/ ~isinstance(fp8_values, F8)
            \/ ~_assert_tensorwise_scale(fp8_self.scale)
            \/ ~AssertScaleEq(fp8_self.scale, fp8_values.scale)
            \/ wrapper_dtype(fp8_self) # wrapper_dtype(fp8_values)
            \/ fp8_self.orig_dtype # fp8_values.orig_dtype
    THEN Raise(fp8_self.data)
    ELSE LET fp8_out == aten_index_put_(fp8_self.data, row, fp8_values.data) IN
         IF ~fp8_out.ok THEN Raise(fp8_self.data)
         ELSE Return(Float8TrainingTensor(fp8_out.val, fp8_self.scale,
                         fp8_self.orig_dtype, fp8_self.linear_mm_config,
                         fp8_self.gemm_input_role),
                     fp8_out.val)

\* the five assertions of copy_fp8's both-narrow branch, after the
\* tensorwise assertion on src
copy_checks(self, src) ==
    /\ _assert_tensorwise_scale(src.scale)
    /\ self.orig_dtype = src.orig_dtype
    /\ AssertScaleEq(self.scale, src.scale)
    /\ ConfigEq(self.linear_mm_config, src.linear_mm_config)
    /\ self.data.dtype = src.data.dtype
    /\ self.gemm_input_role = src.gemm_input_role

\* the branch of copy_fp8 for a plain self and a Float8TrainingTensor src
copy_fp8_to_hp_no_unscale(self, src) ==
    LET src_hp == to_original_precision([src EXCEPT !.scale.flat =
                      [k \in 1..numel(src.scale) |-> RInt(1)]])
    IN
    IF ~src_hp.ok \/ ~_assert_tensorwise_scale(src.scale) THEN Raise(self)
    ELSE LET out == aten_copy_(self, src_hp.val) IN
         IF ~out.ok THEN Raise(self) ELSE Return(out.val, out.val)

copy_fp8_to_hp(self, src) ==
    LET src_hp == to_original_precision(src) IN
    IF ~src_hp.ok \/ ~_assert_tensorwise_scale(src.scale) THEN Raise(self)
    ELSE LET out == aten_copy_(self, src_hp.val) IN
         IF ~out.ok THEN Raise(self) ELSE Return(out.val, out.val)

\* the branch for a Float8TrainingTensor self and a plain src
copy_fp8_from_hp(self, src) == Raise(self.data)

copy_fp8(self, src) ==
    IF ~isinstance(self, F8) /\ isinstance(src, F8) THEN copy_fp8_to_hp(self, src)
    ELSE IF isinstance(self, F8) /\ isinstance(src, F8)
    THEN IF ~copy_checks(self, src) THEN Raise(self.data)
         ELSE LET fp8_out == aten_copy_(self.data, src.data) IN
              IF ~fp8_out.ok THEN Raise(self.data)
              ELSE Return(Float8TrainingTensor(fp8_out.val, self.scale, self.orig_dtype,
                              self.linear_mm_config, self.gemm_input_role),
                          fp8_out.val)
    ELSE IF isinstance(self, F8) THEN copy_fp8_from_hp(self, src)
    ELSE Raise(self)

(***************************************************************************)
(* The tensors handed to the handlers                                      *)
(***************************************************************************)
\* bounds
MaxRows == 2        \* rows of a raw array
MaxCols == 2        \* columns of a raw array
MaxChunks == 2      \* chunks handed to one cat
MaxWorld == 2       \* ranks taking part in an all-gather

ScaleVals == {1, 2}
OrigDtypes == {float32, bfloat16}
Roles == {"input", "weight"}

\* linear mm configs: two objects of equal value, and one of another value
MMConfig(oid, emulate) ==
    [oid |-> oid, emulate |-> emulate, use_fast_accum |-> FALSE, pad_inner_dim |-> FALSE]
ConfigA == MMConfig(1, FALSE)
ConfigA2 == MMConfig(2, FALSE)
ConfigB == MMConfig(3, TRUE)

\* a raw float8 array whose elements are pairwise different bit patterns
Raw(dtype, r, c, seed) ==
    [dtype |-> dtype, shape |-> <<r, c>>,
     flat |-> [k \in 1..(r * c) |-> 64 + 4 * (seed + k - 1)]]

Shapes == (1..MaxRows) \X (1..MaxCols)

DataArrays(seed) == {Raw(dtype, sh[1], sh[2], seed) : dtype \in Fp8Dtypes, sh \in Shapes}

\* a scale tensor: object id, shape and elements
Scale(oid, shape, flat) == [oid |-> oid, dtype |-> float32, shape |-> shape, flat |-> flat]

\* the <<scale, axiswise_dim>> pairs the cast to float8 produces for data of
\* shape (r, c): one scalar (rank 0 or 1), one scale per column (the amax was
\* taken along axis 0) or one scale per row (along the last axis)
ScalePairs(r, c, oid) ==
    {<<Scale(oid, <<>>, <<RInt(v)>>), NoAxis>> : v \in ScaleVals}
    \cup {<<Scale(oid, <<1>>, <<RInt(v)>>), NoAxis>> : v \in ScaleVals}
    \cup {<<Scale(oid, <<1, c>>, [k \in 1..c |-> RInt(f[k])]), Axis(0)>> : f \in [1..c -> ScaleVals]}
    \cup {<<Scale(oid, <<r, 1>>, [k \in 1..r |-> RInt(f[k])]), Axis(-1)>> : f \in [1..r -> ScaleVals]}

Wrap(data, pair, orig_dtype, config, role) ==
    Float8TrainingTensorAx(data, pair[1], orig_dtype, config, role, pair[2])

\* every Float8TrainingTensor a one-tensor handler is called on
InputTensors ==
    UNION {{Wrap(data, pair, od, cfg, role) :
               pair \in ScalePairs(data.shape[1], data.shape[2], 1),
               od \in OrigDtypes, cfg \in {ConfigA, ConfigB}, role \in Roles} :
           data \in DataArrays(0)}

\* the first operand of a two-tensor handler
FirstOperands ==
    UNION {{Wrap(data, pair, float32, ConfigA, "input") :
               pair \in ScalePairs(data.shape[1], data.shape[2], 1)} :
           data \in {Raw(float8_e4m3fn, r, MaxCols, 0) : r \in {1, MaxRows}}}

\* the second operand: any data, the first operand's scale object or another
\* scale object (of the same or another value), and any metadata
SecondOperands(first) ==
    UNION {{Wrap(data, pair, od, cfg, role) :
               pair \in {<<first.scale, first.axiswise_dim>>}
                            \cup ScalePairs(data.shape[1], data.shape[2], 2),
               od \in OrigDtypes, cfg \in {ConfigA, ConfigA2, ConfigB}, role \in Roles} :
           data \in DataArrays(1)}

\* plain tensors
Plain(dtype, r, c) ==
    [cls |-> HP, dtype |-> dtype, shape |-> <<r, c>>,
     flat |-> [k \in 1..(r * c) |-> RInt(100 + k)]]

PlainTensors == {Plain(dtype, sh[1], sh[2]) : dtype \in OrigDtypes, sh \in Shapes}

\* the calls float8_desugar_op is registered for, with their arguments
DesugarOps ==
    {[name |-> "aten.clone.default"]}
    \cup {[name |-> n, size |-> <<sh[1], sh[2]>>] :
             n \in {"aten._unsafe_view.default", "aten.reshape.default"}, sh \in Shapes}
    \cup {[name |-> "aten.as_strided.default", size |-> <<sh[1], sh[2]>>,
           stride |-> IF rowmajor THEN <<sh[2], 1>> ELSE <<1, sh[1]>>, offset |-> off] :
             sh \in Shapes, rowmajor \in BOOLEAN, off \in {0, 1}}
    \cup {[name |-> "aten.slice.Tensor", dim |-> d, start |-> lo, end |-> hi] :
             d \in {0, 1}, lo \in 0..1, hi \in 1..MaxRows}
    \cup {[name |-> "aten.fill_.Scalar", value |-> RInt(v)] : v \in {0, 4}}

TransposeOps ==
    {[name |-> "aten.t.default"]}
    \cup {[name |-> "aten.transpose.int", dim0 |-> d0, dim1 |-> d1] :
             d0 \in {0, 1}, d1 \in {0, 1}}

\* the chunk lists handed to cat: copies of first, then other
ChunkLists(first, other) ==
    {[q \in 1..n |-> IF q = n THEN other ELSE first] : n \in 1..MaxChunks}

(***************************************************************************)
(* Handler calls                                                           *)
(***************************************************************************)
\* The handlers keep nothing between calls: a behaviour is one call on fresh
\* arguments, which a call on its result may follow.
Idle == call.op = None

Called(handler, args, r) ==
    [op |-> handler, args |-> args, raised |-> r.raised, out |-> r.out,
     self_after |-> r.self_after]

Desugar ==
    /\ Idle
    /\ \E t \in InputTensors, aten_op \in DesugarOps :
        /\ call' = Called("float8_desugar_op", [aten_op |-> aten_op, self |-> t],
                          float8_desugar_op(aten_op, t))
        /\ prev' = NoCallRecord
        /\ UNCHANGED <<FLOAT8_OPS_TABLE, reg, mm>>

Detach ==
    /\ Idle
    /\ \E t \in InputTensors :
        LET aten_op == [name |-> "aten.detach.default"] IN
        /\ call' = Called("float8_desugar_data_and_scale_op",
                          [aten_op |-> aten_op, self |-> t],
                          float8_desugar_data_and_scale_op(aten_op, t))
        /\ prev' = NoCallRecord
        /\ UNCHANGED <<FLOAT8_OPS_TABLE, reg, mm>>

Transpose ==
    /\ Idle
    /\ \E t \in InputTensors, aten_op \in TransposeOps :
        /\ call' = Called("float8_transpose", [aten_op |-> aten_op, self |-> t],
                          float8_transpose(aten_op, t))
        /\ prev' = NoCallRecord
        /\ UNCHANGED <<FLOAT8_OPS_TABLE, reg, mm>>

Split ==
    /\ Idle
    /\ \E t \in InputTensors, split_size \in 1..MaxRows, dim \in {0, 1} :
        /\ call' = Called("float8_split",
                          [split_size |-> split_size, dim |-> dim, self |-> t],
                          float8_split(split_size, dim, t))
        /\ prev' = NoCallRecord
        /\ UNCHANGED <<FLOAT8_OPS_TABLE, reg, mm>>

\* cat of chunks that did not come from one split
Cat ==
    /\ Idle
    /\ \E first \in FirstOperands, dim \in {0, 1} :
      \E other \in SecondOperands(first) \cup PlainTensors :
        \E chunks \in ChunkLists(first, other)
                          \cup (IF isinstance(other, HP) THEN {<<other, first>>} ELSE {}) :
            /\ call' = Called("float8_cat", [chunks |-> chunks, dim |-> dim],
                              float8_cat(chunks, dim))
            /\ prev' = NoCallRecord
            /\ UNCHANGED <<FLOAT8_OPS_TABLE, reg, mm>>

\* cat of the list the last call, a split, returned
CatOfSplit ==
    /\ call.op = "float8_split"
    /\ ~call.raised
    /\ \E dim \in {0, 1} :
           /\ call' = Called("float8_cat", [chunks |-> call.out, dim |-> dim],
                             float8_cat(call.out, dim))
           /\ prev' = call
    /\ UNCHANGED <<FLOAT8_OPS_TABLE, reg, mm>>

ToCopy ==
    /\ Idle
    /\ \E t \in InputTensors, dtype \in {float16, bfloat16, float32} :
        /\ call' = Called("autocast_to_copy", [dtype |-> dtype, self |-> t],
                          autocast_to_copy(dtype, t))
        /\ prev' = NoCallRecord
        /\ UNCHANGED <<FLOAT8_OPS_TABLE, reg, mm>>

AllGather ==
    /\ Idle
    /\ \E t \in InputTensors, world \in 1..MaxWorld :
        LET shards == [q \in 1..world |->
                          IF q = 1 THEN t.data
                          ELSE Raw(t.data.dtype, t.data.shape[1], t.data.shape[2], q - 1)]
        IN
        /\ call' = Called("allgather_fp8", [shards |-> shards, self |-> t],
                          allgather_fp8(shards, t))
        /\ prev' = NoCallRecord
        /\ UNCHANGED <<FLOAT8_OPS_TABLE, reg, mm>>

WaitTensor ==
    /\ Idle
    /\ \E t \in InputTensors :
        /\ call' = Called("wait_tensor_fp8", [self |-> t], wait_tensor_fp8(t))
        /\ prev' = NoCallRecord
        /\ UNCHANGED <<FLOAT8_OPS_TABLE, reg, mm>>

IndexPut ==
    /\ Idle
    /\ \E fp8_self \in FirstOperands, row \in 0..(MaxRows - 1) :
      \E fp8_values \in {v \in SecondOperands(fp8_self) : v.data.shape[1] = 1}
                            \cup {p \in PlainTensors : p.shape[1] = 1} :
            /\ call' = Called("index_put_fp8",
                              [self |-> fp8_self, row |-> row, values |-> fp8_values],
                              index_put_fp8(fp8_self, row, fp8_values))
            /\ prev' = NoCallRecord
            /\ UNCHANGED <<FLOAT8_OPS_TABLE, reg, mm>>

\* copy_ with a Float8TrainingTensor self
CopyIntoFloat8 ==
    /\ Idle
    /\ \E self \in FirstOperands :
      \E src \in SecondOperands(self) \cup PlainTensors :
            /\ call' = Called("copy_fp8", [self |-> self, src |-> src], copy_fp8(self, src))
            /\ prev' = NoCallRecord
            /\ UNCHANGED <<FLOAT8_OPS_TABLE, reg, mm>>

\* copy_ with a plain self and a Float8TrainingTensor src
CopyIntoPlain ==
    /\ Idle
    /\ \E self \in PlainTensors, src \in InputTensors :
            /\ call' = Called("copy_fp8", [self |-> self, src |-> src], copy_fp8(self, src))
            /\ prev' = NoCallRecord
            /\ UNCHANGED <<FLOAT8_OPS_TABLE, reg, mm>>



Init ==
    /\ FLOAT8_OPS_TABLE = [op \in OpIds |-> NoHandler]
    /\ reg = NoReg
    /\ call = NoCallRecord
    /\ prev = NoCallRecord
    /\ mm = NoMM

NextRegistry == implements

SpecRegistry == Init /\ [][NextRegistry]_vars

Next ==
    \/ Desugar
    \/ Detach
    \/ Transpose
    \/ Split
    \/ Cat
    \/ CatOfSplit
    \/ ToCopy
    \/ AllGather
    \/ WaitTensor
    \/ IndexPut
    \/ CopyIntoFloat8
    \/ CopyIntoPlain

Spec == Init /\ [][Next]_vars

(***************************************************************************)
(* C1: a call of implements whose op list holds an id that is already in   *)
(* FLOAT8_OPS_TABLE raises, and an id that is registered keeps its handler *)
(* through every later call.                                               *)
(***************************************************************************)
C1_DuplicateRaisesNeverRemapped ==
    reg.called =>
        /\ (\E i \in 1..Len(reg.aten_ops) : reg.before[reg.aten_ops[i]] # NoHandler)
               => reg.raised
        /\ \A op \in OpIds :
               reg.before[op] # NoHandler => FLOAT8_OPS_TABLE[op] = reg.before[op]

C1_Witness ==
    /\ reg.called
    /\ reg.raised
    /\ \E i \in 1..Len(reg.aten_ops) :
           /\ reg.before[reg.aten_ops[i]] # NoHandler
           /\ reg.before[reg.aten_ops[i]] # reg.func
           /\ FLOAT8_OPS_TABLE[reg.aten_ops[i]] = reg.before[reg.aten_ops[i]]

\* C13: an implements(ops)(handler) call that raises because an id of ops is
\* already registered (or repeated within ops) leaves FLOAT8_OPS_TABLE as it
\* was before the call: none of that call's ids are added.
C13_RegistrationAllOrNothing ==
    (reg.called /\ reg.raised) => FLOAT8_OPS_TABLE = reg.before

(***************************************************************************)
(* The matmul pipeline.  Raw operands carry row_major (is_row_major of     *)
(* their strides); plain tensors hold exact rationals.                     *)
(***************************************************************************)
Nothing == <<>>
Some(x) == <<x>>

\* choose_scaled_mm_config(a_role, a_config, b_role, b_config): the
\* configuration the two operands' roles select; both operands of one gemm
\* are cast under one configuration
choose_scaled_mm_config(a_role, a_config, b_role, b_config) == a_config

\* the multiple pad_tensor_for_matmul pads to
PadMultiple == 16

\* pad_tensor_for_matmul(data, dims): zeros appended along axis dims up to the
\* next multiple of PadMultiple; the result is a new contiguous array
pad_tensor_for_matmul(data, dims) ==
    LET n == data.shape[dims + 1]
        padded == ((n + PadMultiple - 1) \div PadMultiple) * PadMultiple
        r == IF dims = 0 THEN padded ELSE data.shape[1]
        c == IF dims = 1 THEN padded ELSE data.shape[2]
    IN [Fill2D(data, r, c,
               [p \in (1..r) \X (1..c) |->
                   IF p[1] <= data.shape[1] /\ p[2] <= data.shape[2]
                   THEN At(data, p[1], p[2]) ELSE 0])
        EXCEPT !.row_major = TRUE]

\* Tensor.repeat(n) then reshape, on a scale: a scalar or one-element vector
\* becomes n copies; repeat with one size on a rank-2 tensor is an error
repeat(scale, n) ==
    IF Len(scale.shape) > 1 THEN Err
    ELSE Ok([scale EXCEPT !.shape = <<n * numel(scale)>>,
                          !.flat = [k \in 1..(n * numel(scale)) |->
                                       scale.flat[((k - 1) % numel(scale)) + 1]]])

preprocess_addmm_no_repeat(a, b) ==
    LET scaled_mm_config == choose_scaled_mm_config(a.gemm_input_role, a.linear_mm_config,
                                b.gemm_input_role, b.linear_mm_config)
        a_padded == IF scaled_mm_config.pad_inner_dim
                    THEN pad_tensor_for_matmul(a.data, 1) ELSE a.data
        b_padded == IF scaled_mm_config.pad_inner_dim
                    THEN pad_tensor_for_matmul(b.data, 0) ELSE b.data
    IN IF scaled_mm_config.pad_inner_dim /\ a.data.shape[2] # b.data.shape[1] THEN Err
       ELSE Ok([a_data |-> [a_padded EXCEPT !.row_major = TRUE], a_scale |-> a.scale,
                b_data |-> [b_padded EXCEPT !.row_major = FALSE], b_scale |-> b.scale])

preprocess_addmm(a, b) ==
    LET scaled_mm_config == choose_scaled_mm_config(a.gemm_input_role, a.linear_mm_config,
                                b.gemm_input_role, b.linear_mm_config)
        a_padded == IF scaled_mm_config.pad_inner_dim
                    THEN pad_tensor_for_matmul(a.data, 1) ELSE a.data
        b_padded == IF scaled_mm_config.pad_inner_dim
                    THEN pad_tensor_for_matmul(b.data, 0) ELSE b.data
        \* not is_row_major -> contiguous(); is_row_major -> t().contiguous().t()
        a_data == IF ~a_padded.row_major THEN [a_padded EXCEPT !.row_major = TRUE]
                  ELSE a_padded
        b_data == IF b_padded.row_major THEN [b_padded EXCEPT !.row_major = FALSE]
                  ELSE b_padded
        a_rep == repeat(a.scale, a_data.shape[1])
        b_rep == repeat(b.scale, b_data.shape[2])
    IN IF scaled_mm_config.pad_inner_dim /\ a.data.shape[2] # b.data.shape[1] THEN Err
       ELSE IF a.axiswise_dim = NoAxis /\ b.axiswise_dim # NoAxis
       THEN IF ~a_rep.ok THEN Err
            ELSE Ok([a_data |-> a_data,
                     a_scale |-> [a_rep.val EXCEPT !.shape = <<numel(a_rep.val), 1>>],
                     b_data |-> b_data, b_scale |-> b.scale])
       ELSE IF a.axiswise_dim # NoAxis /\ b.axiswise_dim = NoAxis
       THEN IF ~b_rep.ok THEN Err
            ELSE Ok([a_data |-> a_data, a_scale |-> a.scale, b_data |-> b_data,
                     b_scale |-> [b_rep.val EXCEPT !.shape = <<1, numel(b_rep.val)>>]])
       ELSE Ok([a_data |-> a_data, a_scale |-> a.scale,
                b_data |-> b_data, b_scale |-> b.scale])

\* the numbers a raw operand stands for (data.float())
Float(data, i, j) == decode(data.dtype, At(data, i, j))

RECURSIVE DotFrom(_, _, _, _, _)
\* sum over k of F(i, k) * G(k, j)
DotFrom(F, G, i, j, k) ==
    IF k = 0 THEN RInt(0)
    ELSE RAdd(DotFrom(F, G, i, j, k - 1), RMul(F[<<i, k>>], G[<<k, j>>]))

\* a bias of shape (N,) or a full (M, N) tensor, at (i, j)
BiasAt(bias, i, j) == IF Len(bias.shape) = 1 THEN bias.flat[j] ELSE At(bias, i, j)

\* torch._scaled_mm(a, b, scale_a, scale_b, bias, None, out_dtype,
\* use_fast_accum), computed exactly as (a * scale_a) @ (b * scale_b) + bias.
\* It takes a row-major a and a column-major b with matching inner sizes, and
\* either two one-element scales or scales of shape (M, 1) and (1, N), the
\* latter only with a bfloat16 output; it takes no bias with a float32 output.
scaled_mm(a, b, scale_a, scale_b, bias, out_dtype, use_fast_accum) ==
    LET M == a.shape[1]
        N == b.shape[2]
        rowwise == scale_a.shape = <<M, 1>> /\ scale_b.shape = <<1, N>>
        tensorwise == numel(scale_a) = 1 /\ numel(scale_b) = 1
        F == [p \in (1..M) \X (1..a.shape[2]) |->
                 RMul(Float(a, p[1], p[2]), ScaleAt(scale_a, p[1], p[2]))]
        G == [p \in (1..b.shape[1]) \X (1..N) |->
                 RMul(Float(b, p[1], p[2]), ScaleAt(scale_b, p[1], p[2]))]
    IN IF \/ a.shape[2] # b.shape[1]
          \/ ~a.row_major \/ b.row_major
          \/ ~(rowwise \/ tensorwise)
          \/ (rowwise /\ ~tensorwise /\ out_dtype # bfloat16)
          \/ (bias # Nothing /\ out_dtype = float32)
          \/ (bias # Nothing /\ bias[1].shape # <<N>>)
       THEN Err
       ELSE Ok([cls |-> HP, dtype |-> out_dtype, shape |-> <<M, N>>,
                flat |-> [x \in 1..(M * N) |->
                    LET i == ((x - 1) \div N) + 1
                        j == ((x - 1) % N) + 1
                        dot == DotFrom(F, G, i, j, a.shape[2])
                    IN IF bias = Nothing THEN dot
                       ELSE RAdd(dot, BiasAt(bias[1], i, j))]])

\* scale.reciprocal()
reciprocal_of(scale) == [scale EXCEPT !.flat = [k \in 1..numel(scale) |-> reciprocal(scale.flat[k])]]

\* a_inverse_scale.new_ones(())
new_ones(scale) == [scale EXCEPT !.shape = <<>>, !.flat = <<RInt(1)>>]

\* what addmm_float8_unwrapped settles before it calls torch._scaled_mm
unwrapped_plan_post_bias_by_request(a_data, a_scale, b_data, b_scale, output_dtype, bias, use_fast_accum) ==
    LET is_rowwise_scaling == /\ a_scale.shape = <<a_data.shape[1], 1>>
                              /\ b_scale.shape = <<1, b_data.shape[2]>>
        post == is_rowwise_scaling /\ ~use_fast_accum
        out_dtype == IF output_dtype \in {float16, float32} /\ is_rowwise_scaling
                     THEN bfloat16 ELSE output_dtype
        unfused == output_dtype = float32
    IN [is_rowwise_scaling |-> is_rowwise_scaling,
        a_inverse_scale |-> IF post THEN new_ones(reciprocal_of(a_scale))
                            ELSE reciprocal_of(a_scale),
        b_inverse_scale |-> IF post THEN new_ones(reciprocal_of(a_scale))
                            ELSE reciprocal_of(b_scale),
        post_inverse_scale |-> IF post THEN Some([a |-> reciprocal_of(a_scale),
                                                  b |-> reciprocal_of(b_scale)])
                               ELSE Nothing,
        orig_dtype |-> output_dtype,
        output_dtype |-> out_dtype,
        post_bias |-> IF unfused THEN bias ELSE Nothing,
        bias |-> IF unfused THEN Nothing ELSE bias]

unwrapped_plan(a_data, a_scale, b_data, b_scale, output_dtype, bias, use_fast_accum) ==
    LET is_rowwise_scaling == /\ a_scale.shape = <<a_data.shape[1], 1>>
                              /\ b_scale.shape = <<1, b_data.shape[2]>>
        post == is_rowwise_scaling /\ ~use_fast_accum
        out_dtype == IF output_dtype \in {float16, float32} /\ is_rowwise_scaling
                     THEN bfloat16 ELSE output_dtype
        unfused == out_dtype = float32
    IN [is_rowwise_scaling |-> is_rowwise_scaling,
        a_inverse_scale |-> IF post THEN new_ones(reciprocal_of(a_scale))
                            ELSE reciprocal_of(a_scale),
        b_inverse_scale |-> IF post THEN new_ones(reciprocal_of(a_scale))
                            ELSE reciprocal_of(b_scale),
        \* a_inverse_scale * b_inverse_scale, of shape (M, N), kept by its factors
        post_inverse_scale |-> IF post THEN Some([a |-> reciprocal_of(a_scale),
                                                  b |-> reciprocal_of(b_scale)])
                               ELSE Nothing,
        orig_dtype |-> output_dtype,
        output_dtype |-> out_dtype,
        post_bias |-> IF unfused THEN bias ELSE Nothing,
        bias |-> IF unfused THEN Nothing ELSE bias]

\* addmm_float8_unwrapped: the call of torch._scaled_mm under the plan, then
\* output *= post_inverse_scale, output += post_bias, output.to(orig_dtype)
addmm_float8_unwrapped(a_data, a_scale, b_data, b_scale, output_dtype, bias, use_fast_accum) ==
    LET plan == unwrapped_plan(a_data, a_scale, b_data, b_scale, output_dtype, bias,
                               use_fast_accum)
        output == scaled_mm(a_data, b_data, plan.a_inverse_scale, plan.b_inverse_scale,
                            plan.bias, plan.output_dtype, use_fast_accum)
        N == b_data.shape[2]
        Scaled(x, i, j) ==
            IF plan.post_inverse_scale = Nothing THEN x
            ELSE RMul(x, RMul(ScaleAt(plan.post_inverse_scale[1].a, i, j),
                              ScaleAt(plan.post_inverse_scale[1].b, i, j)))
        Biased(x, i, j) ==
            IF plan.post_bias = Nothing THEN x
            ELSE RAdd(x, BiasAt(plan.post_bias[1], i, j))
    IN IF ~output.ok THEN [ok |-> FALSE, plan |-> plan]
       ELSE [ok |-> TRUE, plan |-> plan,
             val |-> [output.val EXCEPT
                 !.dtype = IF plan.orig_dtype \in {float16, float32} /\ plan.is_rowwise_scaling
                           THEN plan.orig_dtype ELSE output.val.dtype,
                 !.flat = [x \in 1..numel(output.val) |->
                     LET i == ((x - 1) \div N) + 1
                         j == ((x - 1) % N) + 1
                     IN Biased(Scaled(output.val.flat[x], i, j), i, j)]]]

\* torch.mm(a._data.float() / a._scale, b._data.float() / b._scale).to(dtype)
emulated_mm(a, b, output_dtype) ==
    LET M == a.data.shape[1]
        N == b.data.shape[2]
        F == [p \in (1..M) \X (1..a.data.shape[2]) |->
                 RDiv(Float(a.data, p[1], p[2]), ScaleAt(a.scale, p[1], p[2]))]
        G == [p \in (1..b.data.shape[1]) \X (1..N) |->
                 RDiv(Float(b.data, p[1], p[2]), ScaleAt(b.scale, p[1], p[2]))]
    IN IF \/ a.data.shape[2] # b.data.shape[1]
          \/ ~Broadcasts(a.scale, a.data.shape)
          \/ ~Broadcasts(b.scale, b.data.shape)
       THEN Err
       ELSE Ok([cls |-> HP, dtype |-> output_dtype, shape |-> <<M, N>>,
                flat |-> [x \in 1..(M * N) |->
                    DotFrom(F, G, ((x - 1) \div N) + 1, ((x - 1) % N) + 1, a.data.shape[2])]])

\* what a matmul handler leaves: raised or the value returned, what
\* preprocess_addmm returned, and the plan of addmm_float8_unwrapped when the
\* accelerated path ran
MMRaise(pre) == [raised |-> TRUE, out |-> Nothing, pre |-> pre, plan |-> Nothing]

MMReturn(out, pre, plan) == [raised |-> FALSE, out |-> Some(out), pre |-> pre, plan |-> plan]

\* the body shared by float8_mm (bias = Nothing) and float8_addmm
float8_mm_body(bias, a, b) ==
    LET pre == preprocess_addmm(a, b)
        output_dtype == a.orig_dtype
        scaled_mm_config == choose_scaled_mm_config(a.gemm_input_role, a.linear_mm_config,
                                b.gemm_input_role, b.linear_mm_config)
    IN IF ~pre.ok THEN MMRaise(Nothing)
       ELSE IF bias # Nothing /\ bias[1].dtype # output_dtype THEN MMRaise(Some(pre.val))
       ELSE IF scaled_mm_config.emulate
       THEN LET out == emulated_mm(a, b, output_dtype) IN
            IF ~out.ok THEN MMRaise(Some(pre.val))
            ELSE MMReturn(IF bias = Nothing THEN out.val
                          ELSE [out.val EXCEPT !.flat = [x \in 1..numel(out.val) |->
                                   RAdd(out.val.flat[x],
                                        BiasAt(bias[1], 1, ((x - 1) % b.data.shape[2]) + 1))]],
                          Some(pre.val), Nothing)
       ELSE LET tensor_out == addmm_float8_unwrapped(pre.val.a_data, pre.val.a_scale,
                                  pre.val.b_data, pre.val.b_scale, output_dtype, bias,
                                  scaled_mm_config.use_fast_accum)
            IN IF ~tensor_out.ok THEN MMRaise(Some(pre.val))
               ELSE MMReturn(tensor_out.val, Some(pre.val), Some(tensor_out.plan))

float8_mm(a, b) ==
    IF ~(isinstance(a, F8) /\ isinstance(b, F8)) THEN MMRaise(Nothing)
    ELSE float8_mm_body(Nothing, a, b)

float8_addmm(bias, a, b) ==
    IF ~(isinstance(bias, HP) /\ isinstance(a, F8) /\ isinstance(b, F8)) THEN MMRaise(Nothing)
    ELSE float8_mm_body(Some(bias), a, b)

(***************************************************************************)
(* The operands of a matmul and the matmul calls                           *)
(***************************************************************************)
MaxInner == 2       \* the inner (contracted) size of a matmul

MMDtypes == {float32, float16, bfloat16}

\* the scaled-mm configuration the operands' roles select
ScaledMMConfig(emulate, use_fast_accum, pad_inner_dim) ==
    [oid |-> 1, emulate |-> emulate, use_fast_accum |-> use_fast_accum,
     pad_inner_dim |-> pad_inner_dim]

ScaledMMConfigs ==
    {ScaledMMConfig(e, f, p) : e \in BOOLEAN, f \in BOOLEAN, p \in BOOLEAN}

\* a raw (M, K) or (K, N) operand and its memory layout
Operand(r, c, seed, row_major) ==
    [dtype |-> float8_e4m3fn, shape |-> <<r, c>>,
     flat |-> [k \in 1..(r * c) |-> 64 + 4 * (seed + k - 1)],
     row_major |-> row_major]

\* the sizes (M, K, N) of the matmuls
MMSizes == {<<m, MaxInner, MaxCols>> : m \in {1, MaxRows}}

\* the layouts of <<a, b>>: as torch._scaled_mm wants them, or both the
\* other way round
MMLayouts == {<<TRUE, FALSE>>, <<FALSE, TRUE>>}

TensorwiseScales(oid) ==
    {Scale(oid, <<>>, <<RInt(v)>>) : v \in ScaleVals}
    \cup {Scale(oid, <<1>>, <<RInt(v)>>) : v \in ScaleVals}

\* one scale per row of a, one scale per column of b
RowScales(oid, m) == {Scale(oid, <<m, 1>>, [k \in 1..m |-> RInt(f[k])]) : f \in [1..m -> ScaleVals]}
ColScales(oid, n) == {Scale(oid, <<1, n>>, [k \in 1..n |-> RInt(f[k])]) : f \in [1..n -> ScaleVals]}

\* <<scale, axiswise_dim>> of the left operand: tensorwise, or one scale per
\* row with the marker the cast gave it, or with the marker detach left
LeftScalePairs(m) ==
    {<<s, NoAxis>> : s \in TensorwiseScales(1)}
    \cup {<<s, ax>> : s \in RowScales(1, m), ax \in {Axis(-1), NoAxis}}

RightScalePairs(n) ==
    {<<s, NoAxis>> : s \in TensorwiseScales(2)}
    \cup {<<s, ax>> : s \in ColScales(2, n), ax \in {Axis(0), NoAxis}}

\* a bias of shape (n,)
Bias(dtype, n) ==
    [cls |-> HP, dtype |-> dtype, shape |-> <<n>>, flat |-> [k \in 1..n |-> RInt(k)]]

MMIdle == mm.op = None

MMCalled(handler, args, r) ==
    [op |-> handler, args |-> args, raised |-> r.raised, out |-> r.out,
     pre |-> r.pre, plan |-> r.plan]

\* the left and the right operand of torch.mm / torch.addmm
LeftOperand(sz, lay, pair, orig_dtype, config) ==
    Wrap(Operand(sz[1], sz[2], 0, lay[1]), pair, orig_dtype, config, "input")

RightOperand(sz, lay, pair, orig_dtype, config) ==
    Wrap(Operand(sz[2], sz[3], 1, lay[2]), pair, orig_dtype, config, "weight")

Mm ==
    /\ MMIdle
    /\ \E sz \in MMSizes, lay \in MMLayouts, od \in MMDtypes, cfg \in ScaledMMConfigs :
        \E pa \in LeftScalePairs(sz[1]), pb \in RightScalePairs(sz[3]) :
            LET a == LeftOperand(sz, lay, pa, od, cfg)
                b == RightOperand(sz, lay, pb, od, cfg)
            IN mm' = MMCalled("float8_mm", [a |-> a, b |-> b, bias |-> Nothing],
                              float8_mm(a, b))
    /\ UNCHANGED <<FLOAT8_OPS_TABLE, reg, call, prev>>

Addmm ==
    /\ MMIdle
    /\ \E sz \in MMSizes, lay \in MMLayouts, od \in MMDtypes, cfg \in ScaledMMConfigs,
          dtype \in {float32, bfloat16} :
        \E pa \in LeftScalePairs(sz[1]), pb \in RightScalePairs(sz[3]) :
            LET a == LeftOperand(sz, lay, pa, od, cfg)
                b == RightOperand(sz, lay, pb, od, cfg)
                bias == Bias(dtype, sz[3])
            IN mm' = MMCalled("float8_addmm", [a |-> a, b |-> b, bias |-> Some(bias)],
                              float8_addmm(bias, a, b))
    /\ UNCHANGED <<FLOAT8_OPS_TABLE, reg, call, prev>>

\* addmm_float8_unwrapped called directly (the linear module that does not
\* use the tensor subclass) on operands laid out for torch._scaled_mm
AddmmUnwrapped ==
    /\ MMIdle
    /\ \E sz \in MMSizes, output_dtype \in MMDtypes, use_fast_accum \in BOOLEAN,
          with_bias \in BOOLEAN :
        \E a_scale \in TensorwiseScales(1) \cup RowScales(1, sz[1]),
           b_scale \in TensorwiseScales(2) \cup ColScales(2, sz[3]) :
            LET a_data == Operand(sz[1], sz[2], 0, TRUE)
                b_data == Operand(sz[2], sz[3], 1, FALSE)
                bias == IF with_bias THEN Some(Bias(output_dtype, sz[3])) ELSE Nothing
                r == addmm_float8_unwrapped(a_data, a_scale, b_data, b_scale,
                                            output_dtype, bias, use_fast_accum)
            IN mm' = [op |-> "addmm_float8_unwrapped",
                      args |-> [a_data |-> a_data, a_scale |-> a_scale,
                                b_data |-> b_data, b_scale |-> b_scale,
                                output_dtype |-> output_dtype, bias |-> bias,
                                use_fast_accum |-> use_fast_accum],
                      raised |-> ~r.ok,
                      out |-> IF r.ok THEN Some(r.val) ELSE Nothing,
                      pre |-> Nothing,
                      plan |-> Some(r.plan)]
    /\ UNCHANGED <<FLOAT8_OPS_TABLE, reg, call, prev>>

NextMM ==
    \/ AddmmUnwrapped
    \/ Mm
    \/ Addmm

SpecMM == Init /\ [][NextMM]_vars

(***************************************************************************)
(* The tensors view is called on and the view calls                        *)
(***************************************************************************)
MaxBatch == 2       \* the leading size of a rank-3 tensor

\* the shapes of the data: rank 2 and rank 3
ViewShapes ==
    {<<r, c>> : r \in 1..MaxRows, c \in 1..MaxCols}
    \cup {<<MaxBatch, r, c>> : r \in 1..MaxRows, c \in 1..MaxCols}

\* a raw array of any rank, its elements pairwise different bit patterns
RawOf(shape) ==
    [dtype |-> float8_e4m3fn, shape |-> shape, flat |-> [k \in 1..Prod(shape) |-> 64 + (k - 1)]]

\* shape with the size of axis k (1-based) set to 1: the shape of the scale
\* when the amax was taken along that axis
Reduced(shape, k) == [q \in 1..Len(shape) |-> IF q = k THEN 1 ELSE shape[q]]

ScaleOf(shape) == Scale(1, shape, [k \in 1..Prod(shape) |-> RInt(k)])

\* the <<scale, axiswise_dim>> pairs of data of this shape: tensorwise (rank
\* 0 or 1); scaled along axis 0, along the last axis (marked -1 or by its
\* index) or along another axis; or scaled along the last axis with the
\* marker lost, as detach leaves it
ViewScalePairs(shape) ==
    {<<ScaleOf(<<>>), NoAxis>>, <<ScaleOf(<<1>>), NoAxis>>}
    \cup {<<ScaleOf(Reduced(shape, 1)), Axis(0)>>}
    \cup {<<ScaleOf(Reduced(shape, Len(shape))), ax>> :
             ax \in {Axis(-1), Axis(Len(shape) - 1), NoAxis}}
    \cup {<<ScaleOf(Reduced(shape, k)), Axis(k - 1)>> : k \in 2..(Len(shape) - 1)}

\* the sizes asked for: every entry a size or -1
ViewDims == {-1} \cup (1..(MaxRows * MaxCols))

NewShapes ==
    {<<n>> : n \in ViewDims}
    \cup {<<r, c>> : r \in ViewDims, c \in ViewDims}
    \cup {<<b, r, c>> : b \in {-1, MaxBatch}, r \in 1..MaxRows, c \in 1..MaxCols}

View ==
    /\ Idle
    /\ \E shape \in ViewShapes, new_shape \in NewShapes, od \in OrigDtypes :
        \E pair \in ViewScalePairs(shape) :
            LET t == Wrap(RawOf(shape), pair, od, ConfigA, "input")
                r == float8_view([name |-> "aten.view.default", size |-> new_shape],
                                 t, new_shape)
            IN call' = [op |-> "float8_view", args |-> [self |-> t, new_shape |-> new_shape],
                        raised |-> r.raised, out |-> r.out, self_after |-> r.self_after,
                        error |-> r.error]
    /\ prev' = NoCallRecord
    /\ UNCHANGED <<FLOAT8_OPS_TABLE, reg, mm>>

NextView == View

SpecView == Init /\ [][NextView]_vars

(***************************************************************************)
(* Claims about the handlers (checked under Spec)                          *)
(***************************************************************************)
IsCall(handler) == call.op = handler

\* element (i, j) of the dequantized src, as copy_ delivers it to (i, j)
Dequantized(src, i, j) ==
    RDiv(decode(src.data.dtype,
                At(src.data, IF src.data.shape[1] = 1 THEN 1 ELSE i,
                             IF src.data.shape[2] = 1 THEN 1 ELSE j)),
         src.scale.flat[1])

\* copy_ into a plain self from a Float8TrainingTensor src went through and
\* wrote the dequantized src
CopiedDequantized ==
    /\ ~call.raised
    /\ call.out = call.self_after
    /\ call.out.dtype = call.args.self.dtype
    /\ call.out.shape = call.args.self.shape
    /\ \A i \in 1..call.out.shape[1], j \in 1..call.out.shape[2] :
           At(call.out, i, j) = Dequantized(call.args.src, i, j)

\* copy_ into a Float8TrainingTensor self from a plain src raised and wrote nothing
CopyFromPlainRefused ==
    (isinstance(call.args.self, F8) /\ isinstance(call.args.src, HP))
        => (call.raised /\ call.self_after = call.args.self.data)

(***************************************************************************)
(* C2 as stated: copy_ into a plain destination from a ScaledTensor source *)
(* of any scaling granularity (of a shape that broadcasts to the           *)
(* destination's) succeeds and writes the dequantized source; copy_ into a *)
(* ScaledTensor destination from a plain source raises and writes nothing. *)
(***************************************************************************)
C2_Original ==
    IsCall("copy_fp8") =>
        /\ (/\ isinstance(call.args.self, HP)
            /\ isinstance(call.args.src, F8)
            /\ BroadcastsTo(call.args.src.data.shape, call.args.self.shape))
               => ~call.raised
        /\ CopyFromPlainRefused

(***************************************************************************)
(* C2 amended: with a plain destination and a tensorwise-scaled (scale     *)
(* rank 0 or 1) ScaledTensor source whose shape broadcasts to the          *)
(* destination's, copy_ succeeds and writes the dequantized source into    *)
(* the destination; with a source whose scale has rank 2 it raises and     *)
(* writes nothing; with a ScaledTensor destination and a plain source it   *)
(* raises and writes nothing.                                              *)
(***************************************************************************)
C2_CopyDirection ==
    IsCall("copy_fp8") =>
        /\ (isinstance(call.args.self, HP) /\ isinstance(call.args.src, F8)) =>
              IF /\ _assert_tensorwise_scale(call.args.src.scale)
                 /\ BroadcastsTo(call.args.src.data.shape, call.args.self.shape)
              THEN CopiedDequantized
              ELSE call.raised /\ call.self_after = call.args.self
        /\ CopyFromPlainRefused

C2_Witness ==
    /\ IsCall("copy_fp8")
    /\ isinstance(call.args.self, HP)
    /\ ~call.raised
    /\ call.args.src.scale.flat[1] = RInt(2)
    /\ call.self_after # call.args.self

\* out is the chunks' raw arrays joined in order along dim
IsConcatenation(out, chunks, dim) ==
    LET RECURSIVE Before(_)
        Before(q) == IF q = 1 THEN 0 ELSE Before(q - 1) + chunks[q - 1].shape[dim + 1]
    IN /\ out.dtype = chunks[1].dtype
       /\ Len(out.shape) = 2
       /\ out.shape[dim + 1] = Before(Len(chunks) + 1)
       /\ out.shape[2 - dim] = chunks[1].shape[2 - dim]
       /\ \A q \in 1..Len(chunks) :
            \A i \in 1..chunks[q].shape[1], j \in 1..chunks[q].shape[2] :
               At(chunks[q], i, j) =
                   IF dim = 0 THEN At(out, Before(q) + i, j) ELSE At(out, i, Before(q) + j)

AllFloat8(chunks) == \A q \in 1..Len(chunks) : isinstance(chunks[q], F8)

\* the chunks' raw arrays can be joined along dim
Joinable(chunks, dim) ==
    \A q \in 1..Len(chunks) :
        chunks[q].data.shape[2 - dim] = chunks[1].data.shape[2 - dim]

SameScaleValue(x, y) == x.shape = y.shape /\ x.flat = y.flat

CatFailsOnDifferentScales ==
    (/\ AllFloat8(call.args.chunks)
     /\ \E q \in 1..Len(call.args.chunks) :
           ~SameScaleValue(call.args.chunks[q].scale, call.args.chunks[1].scale))
        => call.raised

CatJoined ==
    /\ ~call.raised
    /\ IsConcatenation(call.out.data,
                       [q \in 1..Len(call.args.chunks) |-> call.args.chunks[q].data],
                       call.args.dim)
    /\ call.out.scale = call.args.chunks[1].scale

(***************************************************************************)
(* C3 as stated: cat fails when two chunks have different scale values;    *)
(* when all chunks are tensorwise-scaled ScaledTensors with the same scale *)
(* value, origin_dtype, mm_config, raw dtype and gemm_role (and shapes     *)
(* that can be joined), cat succeeds and returns the joined data under the *)
(* shared scale.                                                           *)
(***************************************************************************)
C3_Original ==
    IsCall("float8_cat") =>
        /\ CatFailsOnDifferentScales
        /\ (/\ AllFloat8(call.args.chunks)
            /\ Joinable(call.args.chunks, call.args.dim)
            /\ \A q \in 1..Len(call.args.chunks) :
                  LET chunk == call.args.chunks[q]
                      first == call.args.chunks[1]
                  IN /\ _assert_tensorwise_scale(chunk.scale)
                     /\ SameScaleValue(chunk.scale, first.scale)
                     /\ chunk.orig_dtype = first.orig_dtype
                     /\ ConfigEq(chunk.linear_mm_config, first.linear_mm_config)
                     /\ chunk.data.dtype = first.data.dtype
                     /\ chunk.gemm_input_role = first.gemm_input_role)
               => CatJoined

(***************************************************************************)
(* C3 amended: cat fails when two chunks have different scale values; when *)
(* all chunks are tensorwise-scaled ScaledTensors that hold the very same  *)
(* scale object and the very same mm_config object and have the same       *)
(* origin_dtype, raw dtype and gemm_role (and shapes that can be joined),  *)
(* cat succeeds and returns the joined data under the shared scale.        *)
(***************************************************************************)
C3_Cat ==
    IsCall("float8_cat") =>
        /\ CatFailsOnDifferentScales
        /\ (/\ AllFloat8(call.args.chunks)
            /\ Joinable(call.args.chunks, call.args.dim)
            /\ \A q \in 1..Len(call.args.chunks) :
                  LET chunk == call.args.chunks[q]
                      first == call.args.chunks[1]
                  IN /\ _assert_tensorwise_scale(chunk.scale)
                     /\ Is(chunk.scale, first.scale)
                     /\ chunk.orig_dtype = first.orig_dtype
                     /\ Is(chunk.linear_mm_config, first.linear_mm_config)
                     /\ chunk.data.dtype = first.data.dtype
                     /\ chunk.gemm_input_role = first.gemm_input_role)
               => CatJoined

C3_Witness ==
    /\ IsCall("float8_cat")
    /\ prev.op = None
    /\ Len(call.args.chunks) = 2
    /\ CatJoined
    /\ call.args.chunks[1].data # call.args.chunks[2].data

(***************************************************************************)
(* C4: split of a tensorwise-scaled tensor succeeds for every split size   *)
(* and axis, every piece passes cat's checks against the first piece, and  *)
(* cat of the pieces along the same axis returns the tensor's data with    *)
(* its scale, origin_dtype, mm_config and gemm_role.                       *)
(***************************************************************************)
C4_SplitCatRoundTrip ==
    /\ (IsCall("float8_split") /\ _assert_tensorwise_scale(call.args.self.scale))
          => /\ ~call.raised
             /\ \A q \in 1..Len(call.out) : cat_chunk_ok(call.out[q], call.out[1])
    /\ (IsCall("float8_cat") /\ prev.op = "float8_split" /\ call.args.dim = prev.args.dim)
          => /\ call.args.chunks = prev.out
             /\ ~call.raised
             /\ call.out.data = prev.args.self.data
             /\ call.out.scale = prev.args.self.scale
             /\ call.out.orig_dtype = prev.args.self.orig_dtype
             /\ call.out.linear_mm_config = prev.args.self.linear_mm_config
             /\ call.out.gemm_input_role = prev.args.self.gemm_input_role

C4_Witness ==
    /\ IsCall("float8_cat")
    /\ prev.op = "float8_split"
    /\ call.args.dim = prev.args.dim
    /\ call.args.dim = 1
    /\ Len(prev.out) = 2
    /\ ~call.raised
    /\ call.out.data = prev.args.self.data

\* two ScaledTensors agree on origin_dtype, scale, mm_config, raw dtype and
\* gemm_role
AgreeOnAllFive(x, y) ==
    /\ x.orig_dtype = y.orig_dtype
    /\ SameScaleValue(x.scale, y.scale) \/ AssertScaleEq(x.scale, y.scale)
    /\ ConfigEq(x.linear_mm_config, y.linear_mm_config)
    /\ x.data.dtype = y.data.dtype
    /\ x.gemm_input_role = y.gemm_input_role

CatAcceptsOnlyAgreeing ==
    (IsCall("float8_cat") /\ ~call.raised) =>
        \A q \in 1..Len(call.args.chunks) :
            AgreeOnAllFive(call.args.chunks[q], call.args.chunks[1])

CopyAcceptsOnlyAgreeing ==
    (IsCall("copy_fp8") /\ isinstance(call.args.self, F8) /\ ~call.raised) =>
        AgreeOnAllFive(call.args.self, call.args.src)

IndexPutAcceptsOnlyAgreeing ==
    (IsCall("index_put_fp8") /\ ~call.raised) =>
        AgreeOnAllFive(call.args.self, call.args.values)

(***************************************************************************)
(* C5: cat, copy_ between two ScaledTensors and index_put_ fail unless the *)
(* operands agree on all five of origin_dtype, scale, mm_config, raw dtype *)
(* and gemm_role.                                                          *)
(***************************************************************************)
C5_CombineRequiresAgreement ==
    /\ CatAcceptsOnlyAgreeing
    /\ CopyAcceptsOnlyAgreeing
    /\ IndexPutAcceptsOnlyAgreeing

\* the handlers that pass only the raw data on
Passthrough == {"float8_desugar_op", "float8_split", "allgather_fp8", "wait_tensor_fp8"}

\* result r carries self's scale object and metadata
KeepsScaleAndMetadata(r, self) ==
    /\ isinstance(r, F8)
    /\ Is(r.scale, self.scale)
    /\ r.scale = self.scale
    /\ r.orig_dtype = self.orig_dtype
    /\ r.linear_mm_config = self.linear_mm_config
    /\ r.gemm_input_role = self.gemm_input_role

(***************************************************************************)
(* C6: the desugar ops, split, all-gather and wait_tensor succeed only on  *)
(* tensorwise-scaled inputs (scale rank 0 or 1) and every result carries   *)
(* the input's very scale object and its origin_dtype, mm_config and       *)
(* gemm_role.                                                              *)
(***************************************************************************)
C6_PassthroughKeepsScale ==
    (call.op \in Passthrough /\ ~call.raised) =>
        /\ _assert_tensorwise_scale(call.args.self.scale)
        /\ IF IsCall("float8_split")
           THEN \A q \in 1..Len(call.out) :
                    KeepsScaleAndMetadata(call.out[q], call.args.self)
           ELSE KeepsScaleAndMetadata(call.out, call.args.self)

C6_Witness ==
    /\ IsCall("float8_desugar_op")
    /\ call.args.aten_op.name = "aten.slice.Tensor"
    /\ ~call.raised
    /\ call.out.data # call.args.self.data
    /\ Is(call.out.scale, call.args.self.scale)

(***************************************************************************)
(* C10: t / transpose.int of a ScaledTensor returns a tensor whose         *)
(* axiswise marker is swapped (0 becomes -1, last becomes 0); a None       *)
(* marker stays None.                                                      *)
(***************************************************************************)
C10_TransposeSwapsMarker ==
    (IsCall("float8_transpose") /\ ~call.raised) =>
        call.out.axiswise_dim = swapped_axiswise_dim(call.args.self.axiswise_dim)

\* the calls that write into their first argument
InPlaceCall ==
    \/ IsCall("index_put_fp8")
    \/ IsCall("copy_fp8")
    \/ IsCall("float8_desugar_op") /\ InPlace(call.args.aten_op)

\* the destination's raw array (the destination itself when it is plain)
\* before the call
Destination ==
    IF isinstance(call.args.self, F8) THEN call.args.self.data ELSE call.args.self

\* every check of the in-place call passes
InPlaceChecksPass ==
    IF IsCall("float8_desugar_op") THEN _assert_tensorwise_scale(call.args.self.scale)
    ELSE IF IsCall("index_put_fp8")
    THEN /\ isinstance(call.args.self, F8) /\ isinstance(call.args.values, F8)
         /\ _assert_tensorwise_scale(call.args.self.scale)
         /\ AssertScaleEq(call.args.self.scale, call.args.values.scale)
         /\ call.args.self.orig_dtype = call.args.values.orig_dtype
    ELSE IF isinstance(call.args.self, F8)
    THEN isinstance(call.args.src, F8) /\ copy_checks(call.args.self, call.args.src)
    ELSE isinstance(call.args.src, F8) /\ _assert_tensorwise_scale(call.args.src.scale)

\* C12: fill_, index_put_ and copy_ validate before they mutate: a call that
\* fails a check (operand type, tensorwise scale, metadata equality,
\* unsupported direction) leaves the destination's raw array as it was, and
\* the array is written only when every check has passed.
C12_ValidateBeforeMutate ==
    InPlaceCall =>
        /\ (call.raised \/ ~InPlaceChecksPass) => call.self_after = Destination
        /\ call.self_after # Destination => (~call.raised /\ InPlaceChecksPass)

C12_Witness ==
    /\ IsCall("index_put_fp8")
    /\ call.raised
    /\ isinstance(call.args.values, F8)
    /\ ~AssertScaleEq(call.args.self.scale, call.args.values.scale)
    /\ aten_index_put_(call.args.self.data, call.args.row, call.args.values.data).ok
    /\ aten_index_put_(call.args.self.data, call.args.row, call.args.values.data).val
           # call.args.self.data
    /\ call.self_after = call.args.self.data

\* the marker is None exactly when the scale has rank below 2; marker 0 goes
\* with a scale of shape (1, n), marker -1 (or the last axis) with (n, 1)
WellFormed(t) ==
    IF t.axiswise_dim = NoAxis THEN Len(t.scale.shape) < 2
    ELSE /\ Len(t.scale.shape) >= 2
         /\ IF t.axiswise_dim = Axis(0) THEN t.scale.shape[1] = 1
            ELSE /\ t.axiswise_dim \in {Axis(-1), Axis(Len(t.scale.shape) - 1)}
                 /\ t.scale.shape[Len(t.scale.shape)] = 1

\* the tensors handed to the call
ArgumentTensors ==
    IF IsCall("float8_cat") THEN {call.args.chunks[q] : q \in 1..Len(call.args.chunks)}
    ELSE IF IsCall("index_put_fp8") THEN {call.args.self, call.args.values}
    ELSE IF IsCall("copy_fp8") THEN {call.args.self, call.args.src}
    ELSE {call.args.self}

\* the tensors the call returned
ReturnedTensors ==
    IF IsCall("float8_split") THEN {call.out[q] : q \in 1..Len(call.out)}
    ELSE {call.out}

\* C14: every handler preserves the well-formedness of scale and marker: a
\* successful call on well-formed ScaledTensors returns only well-formed
\* ScaledTensors.
C14_WellFormednessPreserved ==
    (/\ call.op # None
     /\ ~call.raised
     /\ \A t \in ArgumentTensors : isinstance(t, F8) => WellFormed(t))
        => \A t \in ReturnedTensors : isinstance(t, F8) => WellFormed(t)

(***************************************************************************)
(* Claims about view (checked under SpecView)                              *)
(***************************************************************************)
\* the call returned the data viewed as asked for
ViewedData ==
    /\ ~call.raised
    /\ call.out.data = aten_view(call.args.self.data, call.args.new_shape).val

\* (1) the target shape is the current shape: a rewrap, scale and marker kept
ViewSameShape ==
    call.args.new_shape = call.args.self.data.shape
        => /\ ViewedData
           /\ call.out.data = call.args.self.data
           /\ call.out.scale = call.args.self.scale
           /\ call.out.axiswise_dim = call.args.self.axiswise_dim

\* (2) otherwise, a scale of rank below 2: what float8_desugar_op does
ViewTensorwise ==
    (/\ call.args.new_shape # call.args.self.data.shape
     /\ Len(call.args.self.scale.shape) < 2)
        => LET r == float8_desugar_op([name |-> "aten.view.default",
                                       size |-> call.args.new_shape], call.args.self)
           IN /\ call.raised = r.raised
              /\ call.out = r.out

ViewAxiswise2D ==
    /\ call.args.new_shape # call.args.self.data.shape
    /\ Len(call.args.self.scale.shape) >= 2
    /\ Len(call.args.new_shape) = 2

MarkedLast ==
    call.args.self.axiswise_dim \in {Axis(-1), Axis(Len(call.args.self.data.shape) - 1)}

\* (3) otherwise, a 2-D target the data can be viewed as: marker 0 gives a
\* scale of shape (1, new_cols), marker kept; marker -1 or last gives a scale
\* of shape (new_rows, 1), marker -1
ViewAxiswise ==
    (ViewAxiswise2D /\ aten_view(call.args.self.data, call.args.new_shape).ok)
        => /\ call.args.self.axiswise_dim = Axis(0)
                => /\ ViewedData
                   /\ call.out.scale.shape = <<1, call.out.data.shape[2]>>
                   /\ call.out.axiswise_dim = Axis(0)
           /\ (call.args.self.axiswise_dim # Axis(0) /\ MarkedLast)
                => /\ ViewedData
                   /\ call.out.scale.shape = <<call.out.data.shape[1], 1>>
                   /\ call.out.axiswise_dim = Axis(-1)

\* (4) every other combination raises the 'not supported yet' error
ViewUnsupported ==
    (/\ call.args.new_shape # call.args.self.data.shape
     /\ Len(call.args.self.scale.shape) >= 2
     /\ \/ Len(call.args.new_shape) # 2
        \/ (call.args.self.axiswise_dim # Axis(0) /\ ~MarkedLast))
        => call.raised /\ call.error = NotSupportedYet

\* C11: the decision table of view: (1) same shape: rewrap with scale and
\* marker unchanged; (2) otherwise scale rank < 2: the desugar passthrough;
\* (3) otherwise a 2-D target: marker 0 gives scale shape (1, new_cols) and
\* the marker kept, marker -1 or last gives scale shape (new_rows, 1) and
\* marker -1; (4) every other combination raises 'not supported yet'.
C11_ViewDecisionTable ==
    IsCall("float8_view") =>
        /\ ViewSameShape
        /\ ViewTensorwise
        /\ ViewAxiswise
        /\ ViewUnsupported

(***************************************************************************)
(* Claims about the matmul pipeline (checked under SpecMM)                 *)
(***************************************************************************)
IsUnwrappedCall == mm.op = "addmm_float8_unwrapped"
IsHandlerMM == mm.op \in {"float8_mm", "float8_addmm"}

Tensorwise(scale) == Len(scale.shape) <= 1 /\ numel(scale) = 1

\* both scales tensorwise, or one scale per row of a and per column of b
SameGranularity(a_data, a_scale, b_data, b_scale) ==
    \/ Tensorwise(a_scale) /\ Tensorwise(b_scale)
    \/ a_scale.shape = <<a_data.shape[1], 1>> /\ b_scale.shape = <<1, b_data.shape[2]>>

\* (A / a_scale) @ (B / b_scale) + bias, element by element
Reference(a_data, a_scale, b_data, b_scale, bias) ==
    LET N == b_data.shape[2]
        F == [p \in (1..a_data.shape[1]) \X (1..a_data.shape[2]) |->
                 RDiv(Float(a_data, p[1], p[2]), ScaleAt(a_scale, p[1], p[2]))]
        G == [p \in (1..b_data.shape[1]) \X (1..N) |->
                 RDiv(Float(b_data, p[1], p[2]), ScaleAt(b_scale, p[1], p[2]))]
    IN [x \in 1..(a_data.shape[1] * N) |->
           LET i == ((x - 1) \div N) + 1
               j == ((x - 1) % N) + 1
               dot == DotFrom(F, G, i, j, a_data.shape[2])
           IN IF bias = Nothing THEN dot ELSE RAdd(dot, BiasAt(bias[1], i, j))]

\* C7: for every combination of granularity (tensorwise, rowwise),
\* use_fast_accum, requested output dtype and bias, addmm_float8_unwrapped
\* returns (A / a_scale) @ (B / b_scale) + bias: the value of the emulation
\* path, the bias added once and multiplied by no scale.
C7_AcceleratedAgreesWithEmulated ==
    (IsUnwrappedCall /\ SameGranularity(mm.args.a_data, mm.args.a_scale,
                                        mm.args.b_data, mm.args.b_scale))
        => /\ ~mm.raised
           /\ mm.out[1].flat = Reference(mm.args.a_data, mm.args.a_scale,
                                         mm.args.b_data, mm.args.b_scale, mm.args.bias)

ExactlyOneAxiswise == IsHandlerMM /\ (mm.args.a.axiswise_dim = NoAxis) # (mm.args.b.axiswise_dim = NoAxis)

AllEntries(scale, v) == \A k \in 1..numel(scale) : scale.flat[k] = v

\* a is the tensorwise operand: its scalar is replicated to (rows of a_data, 1)
ReplicatedLeft ==
    (/\ IsHandlerMM
     /\ mm.args.a.axiswise_dim = NoAxis /\ mm.args.b.axiswise_dim # NoAxis
     /\ Tensorwise(mm.args.a.scale))
        => /\ mm.pre # Nothing
           /\ mm.pre[1].a_scale.shape = <<mm.pre[1].a_data.shape[1], 1>>
           /\ AllEntries(mm.pre[1].a_scale, mm.args.a.scale.flat[1])
           /\ mm.pre[1].b_scale = mm.args.b.scale
           /\ mm.pre[1].b_scale.shape = <<1, mm.pre[1].b_data.shape[2]>>

\* b is the tensorwise operand: its scalar is replicated to (1, cols of b_data)
ReplicatedRight ==
    (/\ IsHandlerMM
     /\ mm.args.a.axiswise_dim # NoAxis /\ mm.args.b.axiswise_dim = NoAxis
     /\ Tensorwise(mm.args.b.scale))
        => /\ mm.pre # Nothing
           /\ mm.pre[1].b_scale.shape = <<1, mm.pre[1].b_data.shape[2]>>
           /\ AllEntries(mm.pre[1].b_scale, mm.args.b.scale.flat[1])
           /\ mm.pre[1].a_scale = mm.args.a.scale
           /\ mm.pre[1].a_scale.shape = <<mm.pre[1].a_data.shape[1], 1>>

\* both operands carry a marker, or neither does: the scales are returned as
\* they came
UnchangedOtherwise ==
    (IsHandlerMM /\ ~ExactlyOneAxiswise /\ mm.pre # Nothing)
        => /\ mm.pre[1].a_scale = mm.args.a.scale
           /\ mm.pre[1].b_scale = mm.args.b.scale

\* the accelerated float8_mm of a mixed pair returns what the multiply of the
\* operands gives with the scalar broadcast over the other operand's rows or
\* columns
MixedResultAsBroadcast ==
    (/\ mm.op = "float8_mm"
     /\ ExactlyOneAxiswise
     /\ Tensorwise(mm.args.a.scale) \/ Tensorwise(mm.args.b.scale)
     /\ ~mm.args.a.linear_mm_config.emulate)
        => /\ ~mm.raised
           /\ mm.out[1].flat = Reference(mm.args.a.data, mm.args.a.scale,
                                         mm.args.b.data, mm.args.b.scale, Nothing)

\* C8: preprocess_addmm reconciles mixed granularity: when exactly one operand
\* has a marker, the other operand's tensorwise scalar is replicated so that
\* a_scale has shape (rows of a_data, 1) and b_scale has shape (1, cols of
\* b_data), every entry the scalar; when both or neither have a marker the
\* scales are unchanged; the multiply gives what a pre-broadcast scale gives.
C8_PreprocessReconcilesGranularity ==
    /\ ReplicatedLeft
    /\ ReplicatedRight
    /\ UnchangedOtherwise
    /\ MixedResultAsBroadcast

C8_Witness ==
    /\ mm.op = "float8_mm"
    /\ ~mm.raised
    /\ ~mm.args.a.linear_mm_config.emulate
    /\ mm.args.a.axiswise_dim = NoAxis /\ mm.args.b.axiswise_dim # NoAxis
    /\ mm.args.a.scale.shape = <<>>
    /\ mm.args.a.scale.flat[1] = RInt(2)
    /\ mm.args.a.data.shape[1] = MaxRows
    /\ mm.pre[1].a_scale.shape = <<MaxRows, 1>>
    /\ mm.args.b.scale.flat[1] # mm.args.b.scale.flat[2]

BiasWithFloat32Requested ==
    IsUnwrappedCall /\ mm.args.bias # Nothing /\ mm.args.output_dtype = float32

\* the bias is kept out of the primitive's call and added afterwards
BiasAddedAfterwards == mm.plan[1].bias = Nothing /\ mm.plan[1].post_bias = mm.args.bias

\* the bias goes into the primitive's call
BiasFused == mm.plan[1].bias = mm.args.bias /\ mm.plan[1].post_bias = Nothing

\* C9 as stated: with a bias and a requested output dtype of float32 the
\* primitive is called with bias None and the bias is added afterwards.
C9_Original == BiasWithFloat32Requested => BiasAddedAfterwards

\* C9: with a bias and a requested output dtype of float32, the primitive is
\* called with bias None and the bias is added to its result afterwards
\* exactly when the scaling is not rowwise (the primitive then runs with a
\* float32 output); with rowwise scaling the primitive runs with a bfloat16
\* output and is handed the bias.
C9_BiasWithFloat32Output ==
    BiasWithFloat32Requested
        => IF ~mm.plan[1].is_rowwise_scaling
           THEN /\ BiasAddedAfterwards
                /\ mm.plan[1].output_dtype = float32
                /\ (Tensorwise(mm.args.a_scale) /\ Tensorwise(mm.args.b_scale))
                      => /\ ~mm.raised
                         /\ mm.out[1].flat = Reference(mm.args.a_data, mm.args.a_scale,
                                                 mm.args.b_data, mm.args.b_scale, mm.args.bias)
           ELSE /\ BiasFused
                /\ mm.plan[1].output_dtype = bfloat16
                /\ ~mm.raised
                /\ mm.out[1].dtype = float32

C9_Witness ==
    /\ BiasWithFloat32Requested
    /\ ~mm.raised
    /\ ~mm.plan[1].is_rowwise_scaling
    /\ BiasAddedAfterwards
    /\ mm.args.a_scale.flat[1] = RInt(2)
    /\ mm.args.a_data.shape[1] = MaxRows

====
